---- MODULE Spec2Model ----
(***************************************************************************)
(* dev-tools/get-bwc-version.py: download and extract one elasticsearch    *)
(* release for the backwards compatibility tests.                          *)
(*                                                                         *)
(* The state is the part of the file system the script looks at (the       *)
(* target path, the version directories and archives under it), the        *)
(* process (working directory, position in main, the exception main ended  *)
(* with, exit status, standard output) and the parsed arguments.  Every    *)
(* library call of main is one action; its result (ok, an error raised by  *)
(* the call, Ctrl-C during the call) is an input of the action.            *)
(***************************************************************************)
EXTENDS Naturals, Integers, Sequences, FiniteSets, TLC

VARIABLES
  version,      \* c.version
  force,        \* c.force
  pathKind,     \* what c.path names on disk
  files,        \* the entries under c.path the script can touch
  cwd,          \* working directory of the process
  delivered,    \* what the server put into the archive
  pc,           \* the step of main that runs next (or ended the run)
  mainResult,   \* how main() ended: running, return or the exception raised
  exitStatus,   \* -1 while the process runs, then the exit status
  out,          \* lines written to standard output
  initial       \* the file system when the process started

vars == <<version, force, pathKind, files, cwd, delivered, pc, mainResult,
          exitStatus, out, initial>>

-----------------------------------------------------------------------------
(* Bounds and inputs *)

NumVersions == 2

VersionPool == <<"0.90.0", "1.0.0", "1.1.0", "1.2.0">>

Versions == {VersionPool[i] : i \in 1..NumVersions}

Path == "./backwards"

NotZip == "not-a-zip"

-----------------------------------------------------------------------------
(* Derived names, lines 47, 56, 57 *)

VersionDir(v) == "elasticsearch-" \o v

Filename(v) == VersionDir(v) \o ".zip"

Url(v) == "https://download.elasticsearch.org/elasticsearch/elasticsearch/" \o Filename(v)

version_dir == VersionDir(version)

filename == Filename(version)

Names == {VersionDir(v) : v \in Versions} \cup {Filename(v) : v \in Versions}

\* absent: no entry.  old: a directory extracted by an earlier run.
\* damaged: an old directory a failed rmtree removed part of.
\* partial: a directory (or archive) written in part.  new: a directory
\* extracted in full by this run.  stale: an archive left by an earlier run.
\* complete: the archive as the server delivered it.
DirContents == {"absent", "old", "damaged", "partial", "new"}

ArchiveContents == {"absent", "stale", "partial", "complete"}

Steps == <<"ensure_path", "chdir", "check_version", "rmtree", "download",
           "extract", "remove", "done">>

Rank(p) == CHOOSE i \in 1..Len(Steps) : Steps[i] = p

Results == {"ok", "error", "interrupt"}

-----------------------------------------------------------------------------
(* Standard output *)

Emit(msg) == out' = Append(out, msg)

Count(msg) == Cardinality({i \in 1..Len(out) : out[i] = msg})

Printed(msg) == Count(msg) > 0

CreatingMsg == "Creating " \o Path

RemovingMsg == "Removing old download " \o version_dir

ExistsMsg == "Version " \o version \o " exists at " \o version_dir

DownloadingMsg == "Downloading " \o Url(version)

ExtractingMsg == "Extracting to " \o version_dir

CleaningMsg == "Cleaning up " \o filename

CtrlCMsg == "Ctrl-C caught, exiting"

-----------------------------------------------------------------------------
(* File system *)

\* os.path.exists(c.path)
PathExists == pathKind \in {"dir", "file"}

\* a name relative to the working directory, after os.chdir(c.path)
Lookup(name) == IF cwd = "path" /\ pathKind = "dir" THEN files[name] ELSE "absent"

\* os.path.exists(version_dir)
VersionDirExists == Lookup(version_dir) # "absent"

FileSystem == [pathKind |-> pathKind, files |-> files]

Empty == [n \in Names |-> "absent"]

InitFiles ==
  {f \in [Names -> {"absent", "old", "stale"}] :
     \A v \in Versions : /\ f[VersionDir(v)] \in {"absent", "old"}
                         /\ f[Filename(v)] \in {"absent", "stale"}}

Init ==
  /\ version \in Versions
  /\ force \in BOOLEAN
  /\ pathKind \in {"noparent", "absent", "dir", "file"}
  /\ files \in InitFiles
  /\ pathKind # "dir" => files = Empty
  /\ cwd = "start"
  /\ delivered = "none"
  /\ pc = "ensure_path"
  /\ mainResult = "running"
  /\ exitStatus = -1
  /\ out = <<>>
  /\ initial = FileSystem

Running == mainResult = "running"

\* main() ends at the current step by raising exc
Raise(exc) == /\ mainResult' = exc
              /\ pc' = pc

Goto(step) == /\ pc' = step
              /\ mainResult' = "running"

Frame == UNCHANGED <<version, force, initial, exitStatus>>

-----------------------------------------------------------------------------
(* main(), lines 39-66 *)

\* os.mkdir: fails when the parent directory is missing, may fail otherwise
MkdirResults == IF pathKind = "noparent" THEN {"error", "interrupt"} ELSE Results

\* lines 42-44
EnsurePath ==
  /\ Running /\ pc = "ensure_path"
  /\ IF PathExists
       THEN /\ Goto("chdir")
            /\ UNCHANGED <<pathKind, out>>
       ELSE /\ Emit(CreatingMsg)
            /\ \E r \in MkdirResults :
                 \/ r = "ok" /\ pathKind' = "dir" /\ Goto("chdir")
                 \/ r = "error" /\ Raise("OSError") /\ UNCHANGED pathKind
                 \/ r = "interrupt" /\ Raise("KeyboardInterrupt") /\ UNCHANGED pathKind
  /\ UNCHANGED <<files, cwd, delivered>>
  /\ Frame

\* mutant: os.chdir that accepts whatever the path names
ChdirUnchecked == Results

\* os.chdir: fails on anything but a directory, may fail on a directory
ChdirResults == IF pathKind = "dir" THEN Results ELSE {"error", "interrupt"}

\* line 46
Chdir ==
  /\ Running /\ pc = "chdir"
  /\ \E r \in ChdirResults :
       \/ r = "ok" /\ cwd' = "path" /\ Goto("check_version")
       \/ r = "error" /\ Raise("OSError") /\ UNCHANGED cwd
       \/ r = "interrupt" /\ Raise("KeyboardInterrupt") /\ UNCHANGED cwd
  /\ UNCHANGED <<pathKind, files, delivered, out>>
  /\ Frame

\* mutant: the force flag is not consulted, an existing version is removed
CheckVersionIgnoresForce ==
  /\ Running /\ pc = "check_version"
  /\ IF VersionDirExists THEN Goto("rmtree") ELSE Goto("download")
  /\ UNCHANGED <<pathKind, files, cwd, delivered, out>>
  /\ Frame

\* lines 47-49, 52-54
CheckVersion ==
  /\ Running /\ pc = "check_version"
  /\ IF VersionDirExists
       THEN IF force
              THEN Goto("rmtree") /\ UNCHANGED out
              ELSE /\ Emit(ExistsMsg)
                   /\ mainResult' = "return"
                   /\ pc' = pc
       ELSE Goto("download") /\ UNCHANGED out
  /\ UNCHANGED <<pathKind, files, cwd, delivered>>
  /\ Frame

\* shutil.rmtree that raised: it removed nothing or a part of the tree
RmtreeFailed == files' \in {files, [files EXCEPT ![version_dir] = "damaged"]}

\* mutant: the old version directory is not removed
RmtreeKeeps ==
  /\ Running /\ pc = "rmtree"
  /\ Emit(RemovingMsg)
  /\ \E r \in Results :
       \/ r = "ok" /\ UNCHANGED files /\ Goto("download")
       \/ r = "error" /\ RmtreeFailed /\ Raise("OSError")
       \/ r = "interrupt" /\ RmtreeFailed /\ Raise("KeyboardInterrupt")
  /\ UNCHANGED <<pathKind, cwd, delivered>>
  /\ Frame

\* lines 50-51
Rmtree ==
  /\ Running /\ pc = "rmtree"
  /\ Emit(RemovingMsg)
  /\ \E r \in Results :
       \/ r = "ok" /\ files' = [files EXCEPT ![version_dir] = "absent"]
                   /\ Goto("download")
       \/ r = "error" /\ RmtreeFailed /\ Raise("OSError")
       \/ r = "interrupt" /\ RmtreeFailed /\ Raise("KeyboardInterrupt")
  /\ UNCHANGED <<pathKind, cwd, delivered>>
  /\ Frame

\* urlretrieve that raised: the file was not opened yet, or holds a part
DownloadFailed == files' \in {files, [files EXCEPT ![filename] = "partial"]}

\* mutant: a failed download removes what it wrote
DownloadCleansUp ==
  /\ Running /\ pc = "download"
  /\ Emit(DownloadingMsg)
  /\ \E r \in Results :
       \/ /\ r = "ok"
          /\ files' = [files EXCEPT ![filename] = "complete"]
          /\ delivered' \in Versions \cup {NotZip}
          /\ Goto("extract")
       \/ /\ r = "error"
          /\ files' = [files EXCEPT ![filename] = "absent"]
          /\ Raise("URLError") /\ UNCHANGED delivered
       \/ r = "interrupt" /\ DownloadFailed /\ Raise("KeyboardInterrupt")
                          /\ UNCHANGED delivered
  /\ UNCHANGED <<pathKind, cwd>>
  /\ Frame

\* lines 56-59
Download ==
  /\ Running /\ pc = "download"
  /\ Emit(DownloadingMsg)
  /\ \E r \in Results :
       \/ /\ r = "ok"
          /\ files' = [files EXCEPT ![filename] = "complete"]
          /\ delivered' \in Versions \cup {NotZip}
          /\ Goto("extract")
       \/ r = "error" /\ DownloadFailed /\ Raise("URLError") /\ UNCHANGED delivered
       \/ r = "interrupt" /\ DownloadFailed /\ Raise("KeyboardInterrupt")
                          /\ UNCHANGED delivered
  /\ UNCHANGED <<pathKind, cwd>>
  /\ Frame

\* an archive that is no zip file cannot be extracted
ExtractResults == IF delivered = NotZip THEN {"error", "interrupt"} ELSE Results

\* extractall that raised: nothing was written, or a part of the entries
ExtractFailed ==
  IF delivered = NotZip
    THEN UNCHANGED files
    ELSE files' \in {files, [files EXCEPT ![VersionDir(delivered)] = "partial"]}

\* mutant: a failed extraction removes the archive
ExtractCleansUp ==
  /\ Running /\ pc = "extract"
  /\ Emit(ExtractingMsg)
  /\ \E r \in ExtractResults :
       \/ /\ r = "ok"
          /\ files' = [files EXCEPT ![VersionDir(delivered)] = "new"]
          /\ Goto("remove")
       \/ /\ r = "error"
          /\ files' = [files EXCEPT ![filename] = "absent"]
          /\ Raise("BadZipFile")
       \/ r = "interrupt" /\ ExtractFailed /\ Raise("KeyboardInterrupt")
  /\ UNCHANGED <<pathKind, cwd, delivered>>
  /\ Frame

\* mutant: a failed extraction fetches the archive once more
ExtractRetriesDownload ==
  /\ Running /\ pc = "extract"
  /\ Emit(ExtractingMsg)
  /\ \E r \in ExtractResults :
       \/ /\ r = "ok"
          /\ files' = [files EXCEPT ![VersionDir(delivered)] = "new"]
          /\ Goto("remove")
       \/ /\ r = "error" /\ ExtractFailed
          /\ IF Count(DownloadingMsg) < 2 THEN Goto("download") ELSE Raise("BadZipFile")
       \/ r = "interrupt" /\ ExtractFailed /\ Raise("KeyboardInterrupt")
  /\ UNCHANGED <<pathKind, cwd, delivered>>
  /\ Frame

\* lines 61-63
Extract ==
  /\ Running /\ pc = "extract"
  /\ Emit(ExtractingMsg)
  /\ \E r \in ExtractResults :
       \/ /\ r = "ok"
          /\ files' = [files EXCEPT ![VersionDir(delivered)] = "new"]
          /\ Goto("remove")
       \/ r = "error" /\ ExtractFailed /\ Raise("BadZipFile")
       \/ r = "interrupt" /\ ExtractFailed /\ Raise("KeyboardInterrupt")
  /\ UNCHANGED <<pathKind, cwd, delivered>>
  /\ Frame

\* mutant: the archive is left behind
RemoveKeepsArchive ==
  /\ Running /\ pc = "remove"
  /\ Emit(CleaningMsg)
  /\ \E r \in Results :
       \/ r = "ok" /\ UNCHANGED files /\ pc' = "done" /\ mainResult' = "return"
       \/ r = "error" /\ UNCHANGED files /\ Raise("OSError")
       \/ r = "interrupt" /\ UNCHANGED files /\ Raise("KeyboardInterrupt")
  /\ UNCHANGED <<pathKind, cwd, delivered>>
  /\ Frame

\* lines 65-66
Remove ==
  /\ Running /\ pc = "remove"
  /\ Emit(CleaningMsg)
  /\ \E r \in Results :
       \/ /\ r = "ok"
          /\ files' = [files EXCEPT ![filename] = "absent"]
          /\ pc' = "done"
          /\ mainResult' = "return"
       \/ r = "error" /\ UNCHANGED files /\ Raise("OSError")
       \/ r = "interrupt" /\ UNCHANGED files /\ Raise("KeyboardInterrupt")
  /\ UNCHANGED <<pathKind, cwd, delivered>>
  /\ Frame

\* Ctrl-C between two library calls of main
Interrupt ==
  /\ Running
  /\ Raise("KeyboardInterrupt")
  /\ UNCHANGED <<pathKind, files, cwd, delivered, out>>
  /\ Frame

-----------------------------------------------------------------------------
(* __main__, lines 68-72 *)

\* mutant: the handler catches every exception
TopLevelCatchesAll ==
  /\ ~Running /\ exitStatus = -1
  /\ IF mainResult = "return"
       THEN UNCHANGED out
       ELSE Emit(CtrlCMsg)
  /\ exitStatus' = 0
  /\ UNCHANGED <<version, force, pathKind, files, cwd, delivered, pc,
                 mainResult, initial>>

TopLevel ==
  /\ ~Running /\ exitStatus = -1
  /\ IF mainResult = "KeyboardInterrupt"
       THEN Emit(CtrlCMsg) /\ exitStatus' = 0
       ELSE /\ UNCHANGED out
            /\ exitStatus' = IF mainResult = "return" THEN 0 ELSE 1
  /\ UNCHANGED <<version, force, pathKind, files, cwd, delivered, pc,
                 mainResult, initial>>

Next ==
  \/ EnsurePath
  \/ Chdir
  \/ CheckVersion
  \/ Rmtree
  \/ Download
  \/ Extract
  \/ Remove
  \/ Interrupt
  \/ TopLevel

Spec == Init /\ [][Next]_vars

Terminated == exitStatus # -1

TypeOK ==
  /\ version \in Versions
  /\ force \in BOOLEAN
  /\ pathKind \in {"noparent", "absent", "dir", "file"}
  /\ \A v \in Versions : /\ files[VersionDir(v)] \in DirContents
                         /\ files[Filename(v)] \in ArchiveContents
  /\ cwd \in {"start", "path"}
  /\ delivered \in Versions \cup {NotZip, "none"}
  /\ Rank(pc) \in 1..Len(Steps)
  /\ mainResult \in {"running", "return", "KeyboardInterrupt", "OSError",
                     "URLError", "BadZipFile"}
  /\ exitStatus \in {-1, 0, 1}
-----------------------------------------------------------------------------
(* Vocabulary of the properties *)

\* the run started with an extracted elasticsearch-<version> under the path
HadVersionDir == initial.pathKind = "dir" /\ initial.files[version_dir] = "old"

\* the run started without elasticsearch-<version>.zip under the path
HadNoArchive == initial.files[filename] = "absent"

Completed == pc = "done" /\ mainResult = "return"

EarlyReturn == pc = "check_version" /\ mainResult = "return"

Interrupted == mainResult = "KeyboardInterrupt"

Failed == mainResult \in {"OSError", "URLError", "BadZipFile"}

DownloadFailure == pc = "download" /\ mainResult = "URLError"

ExtractFailure == pc = "extract" /\ mainResult = "BadZipFile"

\* after main has ended nothing touches the disk or resumes main
EndIsFinal == ~Running => /\ FileSystem' = FileSystem
                          /\ pc' = pc
                          /\ mainResult' = mainResult

-----------------------------------------------------------------------------
(* C1 *)

C1_Frame ==
  /\ FileSystem = initial
  /\ ~Printed(CreatingMsg)
  /\ ~Printed(RemovingMsg)
  /\ ~Printed(DownloadingMsg)
  /\ ~Printed(ExtractingMsg)
  /\ ~Printed(CleaningMsg)
  /\ delivered = "none"

\* C1 as stated: when elasticsearch-V exists under the target path and force
\* is unset, the run changes nothing on disk, downloads nothing, and ends
\* with exit status 0.
C1_Original ==
  (HadVersionDir /\ ~force) => /\ C1_Frame
                               /\ Terminated => exitStatus = 0

\* C1, amended: when elasticsearch-V exists under the target path and force
\* is unset, the run changes nothing on disk and downloads nothing; it ends
\* with exit status 0 unless os.chdir into the target path raised, and then
\* with the unhandled failure.
C1_NoMutationWhenPresent ==
  (HadVersionDir /\ ~force) =>
     /\ C1_Frame
     /\ Terminated => \/ exitStatus = 0
                      \/ exitStatus = 1 /\ pc = "chdir" /\ mainResult = "OSError"

C1_Witness ==
  /\ HadVersionDir /\ ~force
  /\ Terminated /\ EarlyReturn /\ exitStatus = 0
  /\ out = <<ExistsMsg>>

-----------------------------------------------------------------------------
(* C2 *)

\* C2: with force set and elasticsearch-V present, the old directory is
\* removed before the download is attempted: the download never starts while
\* the old directory (or a remainder of it) is on disk, and a successful
\* rmtree hands over to the download step with the directory absent, the
\* state a run that found no directory enters the download step in.
C2_DeleteBeforeDownload ==
  /\ [](Printed(DownloadingMsg) => Lookup(version_dir) \notin {"old", "damaged"})
  /\ [](pc = "download" => ~VersionDirExists)
  /\ [][(pc = "rmtree" /\ pc' # pc) =>
          /\ pc' = "download"
          /\ mainResult' = "running"
          /\ ~VersionDirExists'
          /\ files' = [files EXCEPT ![version_dir] = "absent"]]_vars

C2_Witness ==
  /\ HadVersionDir /\ force
  /\ pc = "extract"
  /\ out = <<RemovingMsg, DownloadingMsg>>
  /\ files[version_dir] = "absent"

-----------------------------------------------------------------------------
(* C3 *)

\* C3 as stated, for the runs that go on to complete: after a successful
\* download and a successful extraction the run ends with the archive absent
\* and elasticsearch-V present, whatever the archive holds.
C3_Original ==
  (Terminated /\ Completed) =>
     /\ Lookup(filename) = "absent"
     /\ VersionDirExists

\* C3, amended: when the run completes all steps (download, extraction and
\* archive removal succeed), the archive is absent at termination, and
\* elasticsearch-V is present, freshly extracted, if the archive's top-level
\* entry is elasticsearch-V.
C3_CompletedLayout ==
  (Terminated /\ Completed) =>
     /\ Lookup(filename) = "absent"
     /\ delivered = version => Lookup(version_dir) = "new"

C3_Witness ==
  /\ Terminated /\ Completed
  /\ delivered = version
  /\ Lookup(version_dir) = "new"
  /\ Lookup(filename) = "absent"

-----------------------------------------------------------------------------
(* C4 *)

\* C4: whenever the download step is reached the target directory exists and
\* is the working directory; when the path did not exist at the start it was
\* created (and announced) before.
C4_PathBeforeDownload ==
  (pc = "download" \/ Printed(DownloadingMsg)) =>
     /\ pathKind = "dir"
     /\ cwd = "path"
     /\ initial.pathKind \in {"absent", "noparent"} => Printed(CreatingMsg)

C4_Witness ==
  /\ initial.pathKind = "absent"
  /\ pathKind = "dir"
  /\ out = <<CreatingMsg, DownloadingMsg>>

-----------------------------------------------------------------------------
(* C5 *)

\* C5 as stated: a run that started without the archive on disk ends without
\* it, whatever way it ends.
C5_Original == (HadNoArchive /\ Terminated) => Lookup(filename) = "absent"

\* C5, amended: a run that started without the archive on disk ends without
\* it when it completes all steps, returns early, or ends before the
\* download step.
C5_ArchiveTransient ==
  (HadNoArchive /\ Terminated /\
     (Completed \/ EarlyReturn \/ Rank(pc) < Rank("download"))) =>
        files[filename] = "absent"

C5_Witness ==
  /\ HadNoArchive /\ Terminated /\ Completed
  /\ Printed(DownloadingMsg)
  /\ files[filename] = "absent"

-----------------------------------------------------------------------------
(* C6 *)

\* the extract step ran and did not raise
ExtractSucceeds ==
  /\ pc = "extract" /\ ~Printed(ExtractingMsg)
  /\ Printed(ExtractingMsg)' /\ mainResult' = "running"

\* C6: the removal step is entered exactly by a successful extraction; when
\* the extraction fails the run ends with the unhandled failure, the archive
\* still on disk, and what was extracted in part left as it is.
C6_RemoveOnlyOnSuccess ==
  /\ [](Printed(CleaningMsg) => Rank(pc) >= Rank("remove"))
  /\ [][(pc' = "remove" /\ pc # "remove") <=> ExtractSucceeds]_vars
  /\ [](ExtractFailure => /\ ~Printed(CleaningMsg)
                          /\ files[filename] = "complete"
                          /\ Terminated => exitStatus = 1)
  /\ [][(pc = "extract" /\ mainResult' = "BadZipFile") =>
          \A n \in Names : files'[n] = files[n] \/ files'[n] = "partial"]_vars
  /\ [][EndIsFinal]_vars

C6_Witness ==
  /\ Terminated /\ ExtractFailure /\ exitStatus = 1
  /\ files[filename] = "complete"
  /\ files[VersionDir(delivered)] = "partial"

-----------------------------------------------------------------------------
(* C7 *)

\* C7: the download is attempted at most once; when it fails the run ends
\* with the unhandled failure, extraction and removal never run, and the
\* archive file is left as the failed call left it.
C7_DownloadFailureFatal ==
  /\ [](Count(DownloadingMsg) <= 1)
  /\ [](DownloadFailure => /\ ~Printed(ExtractingMsg)
                           /\ ~Printed(CleaningMsg)
                           /\ delivered = "none"
                           /\ Terminated => exitStatus = 1)
  /\ [][(pc = "download" /\ mainResult' = "URLError") =>
          /\ files'[filename] \in {files[filename], "partial"}
          /\ \A n \in Names \ {filename} : files'[n] = files[n]]_vars
  /\ [][EndIsFinal]_vars

C7_Witness ==
  /\ Terminated /\ DownloadFailure /\ exitStatus = 1
  /\ files[filename] = "partial"

-----------------------------------------------------------------------------
(* C8 *)

\* C8: the exit status is 0 exactly when main completed all steps, returned
\* early, or was interrupted; an interrupt is reported by the message and
\* nothing else; every error raised by a step gives exit status 1; ending
\* the process changes nothing on disk.
C8_ExitClassification ==
  /\ [](Terminated =>
          /\ exitStatus = 0 <=> (Completed \/ EarlyReturn \/ Interrupted)
          /\ exitStatus = 1 <=> Failed
          /\ Interrupted <=> (Len(out) > 0 /\ out[Len(out)] = CtrlCMsg)
          /\ Completed => Printed(CleaningMsg)
          /\ EarlyReturn => (~force /\ Printed(ExistsMsg)))
  /\ [][exitStatus' # exitStatus => FileSystem' = FileSystem]_vars
  /\ [][EndIsFinal]_vars

C8_Witness ==
  /\ Terminated /\ Interrupted /\ exitStatus = 0
  /\ pc = "extract"
  /\ files[filename] = "complete"
  /\ files[VersionDir(delivered)] = "partial"

-----------------------------------------------------------------------------
(* C9 *)

StepMessages == <<CreatingMsg, RemovingMsg, DownloadingMsg, ExtractingMsg,
                  CleaningMsg>>

\* C9: the steps run in the order ensure-directory, existence check (skip or
\* force-delete), download, extract, delete archive; each at most once, each
\* only while main is running, none out of order.
C9_Sequential ==
  /\ [][pc' # pc =>
          /\ Running
          /\ \/ Rank(pc') = Rank(pc) + 1
             \/ pc = "check_version" /\ pc' = "download"]_vars
  /\ [][out' # out => (Running \/ (~Terminated /\ Terminated'))]_vars
  /\ [](\A i \in 1..Len(StepMessages) : Count(StepMessages[i]) <= 1)
  /\ [](Printed(RemovingMsg) => Rank(pc) >= Rank("rmtree"))
  /\ [](Printed(DownloadingMsg) => Rank(pc) >= Rank("download"))
  /\ [](Printed(ExtractingMsg) => (Rank(pc) >= Rank("extract") /\ Printed(DownloadingMsg)))
  /\ [](Printed(CleaningMsg) => (Rank(pc) >= Rank("remove") /\ Printed(ExtractingMsg)))

C9_Witness ==
  /\ Completed
  /\ out = <<CreatingMsg, DownloadingMsg, ExtractingMsg, CleaningMsg>>

-----------------------------------------------------------------------------
(* C10 *)

====
